---- MODULE Spec2Model ----
(***************************************************************************)
(* Sokoban state-space search (sokoban_search/sokoban.py).                 *)
(*                                                                         *)
(* A puzzle is a SokobanState (grid of occupants, hero position) plus a    *)
(* list of goal positions.  Two drivers are modelled:                      *)
(*   Spec      main.benchmark: bfs() runs to completion, then dfs(), on    *)
(*             the same puzzle;                                            *)
(*   SpecPlay  Sokoban.play (one key press = one move) and Sokoban.sim     *)
(*             (one loop iteration = move_gen + a selected successor).     *)
(* Positions are <<x, y>>; grid[y][x] is indexed from 0 as in the source.  *)
(***************************************************************************)
EXTENDS Integers, Sequences, FiniteSets, TLC

\* ---- bounds of the enumerated puzzles ----
Width == 3
Height == 2
MaxBoxes == 2
MaxWalls == 1
MaxGoals == 2
MaxMarks == 1

\* ---- Occupant (enum values) ----
EMPTY == " "
BLOCK == "B"
WALL == "W"
Occupant == {EMPTY, BLOCK, WALL}

\* ---- Direction: members in definition order, and their displacement ----
\* the members defined in the opposite order
Direction_m == <<"RIGHT", "LEFT", "DOWN", "UP">>

Direction == <<"UP", "DOWN", "LEFT", "RIGHT">>
Directions == {Direction[i] : i \in 1..Len(Direction)}
DirValue(d) ==
    CASE d = "UP" -> <<0, -1>>
      [] d = "DOWN" -> <<0, 1>>
      [] d = "LEFT" -> <<-1, 0>>
      [] d = "RIGHT" -> <<1, 0>>

\* Python's len() of a 0-indexed list
len(l) == Cardinality(DOMAIN l)

\* SokobanState dataclass: value equality over (grid, hero)
SokobanState(grid, hero) == [grid |-> grid, hero |-> hero]

is_legal_pos(self, new_x, new_y) ==
    /\ 0 <= new_x /\ new_x < len(self.grid[0])
    /\ 0 <= new_y /\ new_y < len(self.grid)

\* a push is accepted onto any cell of the grid, whatever it holds
can_push_to_m(self, push_x, push_y) == is_legal_pos(self, push_x, push_y)

can_push_to(self, push_x, push_y) ==
    /\ is_legal_pos(self, push_x, push_y)
    /\ self.grid[push_y][push_x] = EMPTY

\* the push forgets to empty the cell the box leaves
move_match_m(self, new_x, new_y, dx, dy) ==
    CASE self.grid[new_y][new_x] = EMPTY ->
            [self EXCEPT !.hero = <<new_x, new_y>>]
      [] self.grid[new_y][new_x] = BLOCK ->
            IF can_push_to(self, new_x + dx, new_y + dy)
            THEN [grid |-> [self.grid EXCEPT ![new_y + dy][new_x + dx] = BLOCK],
                  hero |-> <<new_x, new_y>>]
            ELSE self
      [] self.grid[new_y][new_x] = WALL -> self

\* SokobanState.move, the match statement on the occupant of the target cell
move_match(self, new_x, new_y, dx, dy) ==
    CASE self.grid[new_y][new_x] = EMPTY ->
            [self EXCEPT !.hero = <<new_x, new_y>>]
      [] self.grid[new_y][new_x] = BLOCK ->
            LET push_x == new_x + dx
                push_y == new_y + dy
            IN  IF can_push_to(self, push_x, push_y)
                THEN [grid |-> [self.grid EXCEPT ![push_y][push_x] = BLOCK,
                                                 ![new_y][new_x] = EMPTY],
                      hero |-> <<new_x, new_y>>]
                ELSE self
      [] self.grid[new_y][new_x] = WALL -> self

\* the hero is relocated before the bounds check returns
move_m(self, direction) ==
    LET dx == DirValue(direction)[1]
        dy == DirValue(direction)[2]
        new_x == self.hero[1] + dx
        new_y == self.hero[2] + dy
    IN  IF ~is_legal_pos(self, new_x, new_y)
        THEN [self EXCEPT !.hero = <<new_x, new_y>>]
        ELSE move_match(self, new_x, new_y, dx, dy)

\* SokobanState.move: works on a deep copy of self and returns the copy
move(self, direction) ==
    LET hero_x == self.hero[1]
        hero_y == self.hero[2]
        dx == DirValue(direction)[1]
        dy == DirValue(direction)[2]
        new_x == hero_x + dx
        new_y == hero_y + dy
    IN  IF ~is_legal_pos(self, new_x, new_y) THEN self
        ELSE move_match(self, new_x, new_y, dx, dy)

\* copy.copy in place of deepcopy: a new state object that shares the grid
deepcopy_m(self) == [state_obj |-> "new_state", grid_obj |-> "self.grid"]

\* deepcopy(self): the identities of the state object and of the grid object
\* that new_state refers to; both are fresh
deepcopy(self) == [state_obj |-> "new_state", grid_obj |-> "new_state.grid"]

\* the receiver of self.move(direction) once the call has returned: the
\* assignments of move go to new_state, so they reach the receiver only
\* through an object that new_state shares with it
move_receiver(self, direction) ==
    LET new_state == deepcopy(self)
        returned == move(self, direction)
    IN  [grid |-> IF new_state.grid_obj = "self.grid"
                  THEN returned.grid ELSE self.grid,
         hero |-> IF new_state.state_obj = "self"
                  THEN returned.hero ELSE self.hero]

\* ---- Python list helpers ----
Range(l) == {l[i] : i \in 1..Len(l)}
Reverse(l) == [i \in 1..Len(l) |-> l[Len(l) + 1 - i]]

\* Optional parent of a StatePair: None, or the parent state boxed in a 1-tuple
None == <<>>
Some(s) == <<s>>

\* Sokoban.goal_test: all(...) over the goal list, left to right
RECURSIVE all_block(_, _, _)
all_block(self_goals, state, i) ==
    IF i > Len(self_goals) THEN TRUE
    ELSE IF state.grid[self_goals[i][2]][self_goals[i][1]] # BLOCK THEN FALSE
    ELSE all_block(self_goals, state, i + 1)

\* any(...) in place of all(...)
goal_test_m(self_goals, state) ==
    \E i \in 1..Len(self_goals) :
        state.grid[self_goals[i][2]][self_goals[i][1]] = BLOCK

goal_test(self_goals, state) == all_block(self_goals, state, 1)

\* the successor is not compared with the state it came from
RECURSIVE move_gen_loop_m(_, _, _)
move_gen_loop_m(state, i, states) ==
    IF i > Len(Direction) THEN states
    ELSE LET new_state == move(state, Direction[i])
         IN  move_gen_loop_m(state, i + 1,
                 IF new_state \notin Range(states)
                 THEN Append(states, new_state)
                 ELSE states)

\* Sokoban.move_gen: one move per Direction member, in definition order
RECURSIVE move_gen_loop(_, _, _)
move_gen_loop(state, i, states) ==
    IF i > Len(Direction) THEN states
    ELSE LET new_state == move(state, Direction[i])
         IN  move_gen_loop(state, i + 1,
                 IF new_state \notin Range(states) /\ new_state # state
                 THEN Append(states, new_state)
                 ELSE states)

\* the loop over Direction skips its first member
move_gen_m(state) == move_gen_loop(state, 2, <<>>)

move_gen(state) == move_gen_loop(state, 1, <<>>)

occurs_in(lst, node) == \E i \in 1..Len(lst) : lst[i][1] = node

\* only closed is consulted
remove_seen_m(node_list, open, closed) ==
    SelectSeq(node_list, LAMBDA node : ~occurs_in(closed, node))

\* Sokoban.remove_seen: the nodes that occur neither in open nor in closed
remove_seen(node_list, open, closed) ==
    SelectSeq(node_list,
              LAMBDA node : ~(occurs_in(open, node) \/ occurs_in(closed, node)))

\* the parent is not recorded
make_pairs_m(node_list, node) ==
    [i \in 1..Len(node_list) |-> <<node_list[i], None>>]

\* Sokoban.make_pairs
make_pairs(node_list, node) ==
    [i \in 1..Len(node_list) |-> <<node_list[i], Some(node)>>]

\* the scan of closed never matches: the fallback pair is returned
find_link_m(node, closed) == <<node, None>>

\* Sokoban.find_link: first pair of closed whose state equals node, else the
\* fallback pair (node, None)
find_link(node, closed) ==
    IF \E i \in 1..Len(closed) : closed[i][1] = node
    THEN closed[CHOOSE i \in 1..Len(closed) :
                    /\ closed[i][1] = node
                    /\ \A j \in 1..(i - 1) : closed[j][1] # node]
    ELSE <<node, None>>

\* Sokoban.reconstruct_path: the while loop, then path.reverse()
RECURSIVE reconstruct_loop(_, _, _)
reconstruct_loop(path, parent, closed) ==
    IF parent = None THEN Reverse(path)
    ELSE reconstruct_loop(Append(path, parent[1]),
                          find_link(parent[1], closed)[2], closed)

reconstruct_path(node_pair, closed) ==
    reconstruct_loop(<<node_pair[1]>>, node_pair[2], closed)

\* number of find_link calls of reconstruct_path that end in the fallback
\* return (no pair of closed holds the state looked up)
RECURSIVE reconstruct_fallbacks(_, _)
reconstruct_fallbacks(parent, closed) ==
    IF parent = None THEN 0
    ELSE (IF \E i \in 1..Len(closed) : closed[i][1] = parent[1] THEN 0 ELSE 1)
         + reconstruct_fallbacks(find_link(parent[1], closed)[2], closed)

\* deque.pop in place of deque.popleft
popleft_m(q) == <<q[Len(q)], SubSeq(q, 1, Len(q) - 1)>>

\* deque.popleft / list.pop: <<removed element, remaining list>>
popleft(q) == <<Head(q), Tail(q)>>
pop(q) == <<q[Len(q)], SubSeq(q, 1, Len(q) - 1)>>

\* ---- heuristics.py ----
abs(n) == IF n < 0 THEN 0 - n ELSE n

\* the differences are added without abs()
manhattan_m(a, b) == (a[1] - b[1]) + (a[2] - b[2])

\* _manhattan
manhattan(a, b) == abs(a[1] - b[1]) + abs(a[2] - b[2])

\* sum(iterable, 0) and min(iterable, default=...) over a list of integers
RECURSIVE py_sum(_)
py_sum(l) == IF l = <<>> THEN 0 ELSE Head(l) + py_sum(Tail(l))

RECURSIVE py_min(_, _)
py_min(l, default) ==
    IF l = <<>> THEN default
    ELSE IF Tail(l) = <<>> THEN Head(l)
    ELSE LET m == py_min(Tail(l), default)
         IN  IF Head(l) <= m THEN Head(l) ELSE m

\* SokobanState.box_positions: the positions of the BLOCK cells, row by row
box_positions(self) ==
    LET width == len(self.grid[0])
        cells == [k \in 1..(width * len(self.grid)) |->
                     <<(k - 1) % width, (k - 1) \div width>>]
    IN  SelectSeq(cells, LAMBDA p : self.grid[p[2]][p[1]] = BLOCK)

goal_distances(box, goals) ==
    [j \in 1..Len(goals) |-> manhattan(box, goals[j])]

min_manhattan(goals, state) ==
    LET boxes == box_positions(state)
    IN  py_sum([i \in 1..Len(boxes) |->
                   py_min(goal_distances(boxes[i], goals), 0)])

sum_manhattan(goals, state) ==
    LET boxes == box_positions(state)
    IN  py_sum([i \in 1..Len(boxes) |->
                   py_sum(goal_distances(boxes[i], goals))])

sum_manhattan_hero(goals, state) ==
    LET boxes == box_positions(state)
    IN  py_sum([i \in 1..Len(boxes) |->
                   py_sum(goal_distances(boxes[i], goals))
                   + manhattan(state.hero, boxes[i])])

min_manhattan_hero(goals, state) ==
    LET boxes == box_positions(state)
    IN  py_sum([i \in 1..Len(boxes) |->
                   py_min(goal_distances(boxes[i], goals), 0)
                   + manhattan(state.hero, boxes[i])])

\* default of the penalty parameter
DefaultPenalty == 5

\* sum(penalty for (j, i) in goals if state.grid[i][j] != Occupant.BLOCK)
goal_penalties(goals, state, penalty) ==
    py_sum([k \in 1..Len(goals) |->
               IF state.grid[goals[k][2]][goals[k][1]] # BLOCK
               THEN penalty ELSE 0])

sum_manhattan_hero_penalty(goals, state, penalty) ==
    sum_manhattan_hero(goals, state) + goal_penalties(goals, state, penalty)

min_manhattan_hero_penalty(goals, state, penalty) ==
    min_manhattan_hero(goals, state) + goal_penalties(goals, state, penalty)

HeuristicNames ==
    {"min_manhattan", "sum_manhattan", "sum_manhattan_hero", "min_manhattan_hero",
     "sum_manhattan_hero_penalty", "min_manhattan_hero_penalty"}

\* the call h_fn(goals, state) of the evaluator of that name
evaluate(name, goals, state) ==
    CASE name = "min_manhattan" -> min_manhattan(goals, state)
      [] name = "sum_manhattan" -> sum_manhattan(goals, state)
      [] name = "sum_manhattan_hero" -> sum_manhattan_hero(goals, state)
      [] name = "min_manhattan_hero" -> min_manhattan_hero(goals, state)
      [] name = "sum_manhattan_hero_penalty" ->
            sum_manhattan_hero_penalty(goals, state, DefaultPenalty)
      [] name = "min_manhattan_hero_penalty" ->
            min_manhattan_hero_penalty(goals, state, DefaultPenalty)

\* ---- level files: Sokoban.from_file and Sokoban._from_alt ----
\* A file is its list of lines (raw_data). A grid line is the sequence of its
\* characters; the goal line is the sequence of its "x,y" words and the hero
\* line one such word, each word the pair of the texts around the comma.

\* int(text) for the decimal texts used in level files
py_int(text) ==
    CASE text = "-1" -> 0 - 1
      [] text = "0" -> 0
      [] text = "1" -> 1
      [] text = "2" -> 2
      [] text = "3" -> 3
      [] text = "4" -> 4

\* str.upper on one character
upper(c) ==
    CASE c = "b" -> "B"
      [] c = "w" -> "W"
      [] OTHER -> c

parse_position(pair) == <<py_int(pair[1]), py_int(pair[2])>>

parse_goals(line) == [i \in 1..Len(line) |-> parse_position(line[i])]

\* [[Occupant(c.upper()) for c in line] for line in rows]; Occupant(v) raises
\* ValueError when v is not the value of a member
occupant_raises(rows) ==
    \E i \in 1..Len(rows) : \E j \in 1..Len(rows[i]) :
        upper(rows[i][j]) \notin Occupant

occupants(rows) ==
    [y \in 0..(Len(rows) - 1) |->
        [x \in 0..(Len(rows[y + 1]) - 1) |-> upper(rows[y + 1][x + 1])]]

\* the match statement of _from_alt: what is stored back into grid[i][j] ...
alt_cell(c) ==
    CASE c = " " -> " "
      [] c = "X" -> "W"
      [] c = "@" -> " "
      [] c = "." -> " "
      [] c = "*" -> "B"
      [] c = "+" -> "B"
      [] OTHER -> " "

\* ... the cells in the order the two for loops visit them ...
alt_cells(raw_data) ==
    LET width == Len(raw_data[1])
    IN  [k \in 1..(width * Len(raw_data)) |->
            <<(k - 1) % width, (k - 1) \div width>>]

\* ... the goals appended ...
alt_goals(raw_data) ==
    SelectSeq(alt_cells(raw_data),
              LAMBDA p : raw_data[p[2] + 1][p[1] + 1] \in {".", "+"})

\* ... and the hero: (0, 0) unless an "@" is met, the last one met otherwise
alt_hero(raw_data) ==
    LET heroes == SelectSeq(alt_cells(raw_data),
                            LAMBDA p : raw_data[p[2] + 1][p[1] + 1] = "@")
    IN  IF heroes = <<>> THEN <<0, 0>> ELSE heroes[Len(heroes)]

alt_rows(raw_data) ==
    [i \in 1..Len(raw_data) |->
        [j \in 1..Len(raw_data[i]) |-> alt_cell(raw_data[i][j])]]

from_alt_raises(raw_data) == occupant_raises(alt_rows(raw_data))

from_alt(raw_data) ==
    [state |-> SokobanState(occupants(alt_rows(raw_data)), alt_hero(raw_data)),
     goals |-> alt_goals(raw_data)]

\* from_file: no check other than the Occupant lookup
from_file_raises(raw_data, is_alt) ==
    IF is_alt THEN from_alt_raises(raw_data)
    ELSE occupant_raises(SubSeq(raw_data, 1, Len(raw_data) - 2))

from_file(raw_data, is_alt) ==
    IF is_alt THEN from_alt(raw_data)
    ELSE LET hero == parse_position(raw_data[Len(raw_data)])
             goal_list == parse_goals(raw_data[Len(raw_data) - 1])
             rows == SubSeq(raw_data, 1, Len(raw_data) - 2)
         IN  [state |-> SokobanState(occupants(rows), hero),
              goals |-> goal_list]

\* ---- enumerated inputs ----
Cols == 0..(Width - 1)
Rows == 0..(Height - 1)
Positions == Cols \X Rows
CountOf(g, o) == Cardinality({p \in Positions : g[p[2]][p[1]] = o})
AllGrids == {g \in [Rows -> [Cols -> Occupant]] :
                CountOf(g, BLOCK) <= MaxBoxes /\ CountOf(g, WALL) <= MaxWalls}
GoalLists == UNION {[1..n -> Positions] : n \in 0..MaxGoals}

\* level files: at most MaxMarks cells of each kind (box, wall, hero, goal,
\* unknown character) and at most MaxMarks words on the goal line
NumTexts == {"-1", "0", "1", "2", "3"}
FileChars == {" ", "B", "W", "w", "?"}
AltChars == {" ", "X", "@", ".", "*", "+", "?"}
Marks(rows, S) ==
    Cardinality({p \in (1..Height) \X (1..Width) : rows[p[1]][p[2]] \in S})
FileRows == {r \in [1..Height -> [1..Width -> FileChars]] :
                /\ Marks(r, {"B"}) <= MaxMarks
                /\ Marks(r, {"W", "w"}) <= MaxMarks
                /\ Marks(r, {"?"}) <= MaxMarks}
AltRows == {r \in [1..Height -> [1..Width -> AltChars]] :
                /\ Marks(r, {"*", "+"}) <= MaxMarks
                /\ Marks(r, {"X"}) <= MaxMarks
                /\ Marks(r, {"@"}) <= MaxMarks
                /\ Marks(r, {".", "+"}) <= MaxMarks
                /\ Marks(r, {"?"}) <= MaxMarks}
GoalTexts == {p \in NumTexts \X NumTexts :
                 py_int(p[1]) \in Cols /\ py_int(p[2]) \in Rows}
GoalLines == UNION {[1..n -> GoalTexts] : n \in 0..MaxMarks}
HeroLines == NumTexts \X NumTexts
FileLevels == {[is_alt |-> FALSE, raw_data |-> r \o <<g, h>>] :
                  r \in FileRows, g \in GoalLines, h \in HeroLines}
AltLevels == {[is_alt |-> TRUE, raw_data |-> r] : r \in AltRows}
Levels == FileLevels \cup AltLevels

VARIABLES
    state,       \* Sokoban.state
    goals,       \* Sokoban.goals
    pc,          \* position of the driver
    prev,        \* play/sim: self.state before the last key press / selection
    key,         \* play: the direction of the last key press
    won,         \* play: goal_test(self.state) after the last key press
    states,      \* sim: the list returned by move_gen
    open,        \* bfs/dfs: local open
    closed,      \* bfs/dfs: local closed
    node_pair,   \* bfs/dfs: the pair popped last
    lvl,         \* bfs: depth counter
    todo,        \* bfs: iterations left of `for _ in range(len(open))`
    gen_calls,   \* bfs/dfs: number of move_gen calls of the running search
    bfs_result,  \* list returned by bfs()
    dfs_result,  \* list returned by dfs()
    receiver,    \* play: the object self.state referred to before the last
                 \* key press, as it is after the call of move
    children,    \* bfs/dfs: the list returned by the last move_gen call
    printed,     \* bfs: <<depth, nodes in open>> of the last progress line
    fallbacks,   \* reconstruct_path: find_link calls of the last
                 \* reconstruction that returned the fallback pair
    level,       \* from_file: is_alt and raw_data, the lines read from the file
    heuristic,   \* name of the heuristic evaluated last
    score,       \* its value
    rebuilt,     \* list returned by a direct reconstruct_path call
    raised       \* whether that call ended with an exception

play_vars == <<prev, key, won, states, receiver>>
search_vars == <<open, closed, node_pair, lvl, todo, gen_calls, bfs_result,
                 dfs_result, children, printed, fallbacks>>
aux_vars == <<level, heuristic, score, rebuilt, raised>>
vars == <<state, goals, pc, play_vars, search_vars, aux_vars>>

\* puzzles handed to the searches: hero on a cell of the grid
StartStates == {SokobanState(g, h) : g \in AllGrids, h \in Positions}
\* states a key press or sim step is applied to: the hero position is whatever
\* the level file gives, so also one row or column outside the grid
HeroRange == ((0 - 1)..Width) \X ((0 - 1)..Height)
PlayStates == {SokobanState(g, h) : g \in AllGrids, h \in HeroRange}

Start(S) ==
    /\ state \in S
    /\ goals \in GoalLists
    /\ pc = "main"
    /\ prev = state
    /\ key = "none"
    /\ won = FALSE
    /\ states = <<>>
    /\ open = <<>>
    /\ closed = <<>>
    /\ node_pair = None
    /\ lvl = 0
    /\ todo = 0
    /\ gen_calls = 0
    /\ bfs_result = <<>>
    /\ dfs_result = <<>>
    /\ receiver = None
    /\ children = <<>>
    /\ printed = <<>>
    /\ fallbacks = 0
    /\ level = <<>>
    /\ heuristic = "none"
    /\ score = 0
    /\ rebuilt = <<>>
    /\ raised = FALSE

Init == Start(StartStates)
InitPlay == Start(PlayStates)

\* ---- Sokoban.play: on_press for an arrow key ----
Press(d) ==
    /\ pc \in {"main", "play"}
    /\ state' = move(state, d)
    /\ prev' = state
    /\ key' = d
    /\ won' = goal_test(goals, state')
    /\ pc' = IF won' THEN "play_ret" ELSE "play"
    /\ receiver' = move_receiver(state, d)
    /\ UNCHANGED <<goals, states, search_vars, aux_vars>>

\* ---- Sokoban.sim: one iteration of the while loop ----
\* the number typed at the prompt; Python list indexing is 0-based and a
\* negative index counts from the end
InputIndex == (0 - 1)..Len(Direction)
py_in_range(l, i) == (0 - Len(l)) <= i /\ i < Len(l)
py_index(l, i) == IF i >= 0 THEN l[i + 1] ELSE l[Len(l) + i + 1]

SimSelect(next_state) ==
    /\ pc \in {"main", "sim"}
    /\ ~goal_test(goals, state)
    /\ states' = move_gen(state)
    /\ py_in_range(states', next_state)
    /\ state' = py_index(states', next_state)
    /\ prev' = state
    /\ pc' = "sim"
    /\ UNCHANGED <<goals, key, won, search_vars,
                   receiver, aux_vars>>

\* states[next_state] raises IndexError
SimIndexError(next_state) ==
    /\ pc \in {"main", "sim"}
    /\ ~goal_test(goals, state)
    /\ states' = move_gen(state)
    /\ ~py_in_range(states', next_state)
    /\ prev' = state
    /\ pc' = "sim_error"
    /\ UNCHANGED <<state, goals, key, won, search_vars,
                   receiver, aux_vars>>

SimReturn ==
    /\ pc \in {"main", "sim"}
    /\ goal_test(goals, state)
    /\ pc' = "sim_ret"
    /\ UNCHANGED <<state, goals, play_vars, search_vars,
                   aux_vars>>

\* ---- Sokoban.bfs ----
BfsStart ==
    /\ pc = "main"
    /\ open' = <<<<state, None>>>>
    /\ closed' = <<>>
    /\ lvl' = 0
    /\ gen_calls' = 0
    /\ pc' = "bfs_while"
    /\ UNCHANGED <<state, goals, play_vars, node_pair, todo, bfs_result, dfs_result,
                   children, printed, fallbacks, aux_vars>>

\* the for loop of a level pops a single node
BfsLevel_m ==
    /\ pc = "bfs_while"
    /\ open # <<>>
    /\ printed' = <<lvl, Len(open)>>
    /\ todo' = 1
    /\ pc' = "bfs_for"
    /\ UNCHANGED <<state, goals, play_vars, open, closed, node_pair, lvl,
                   gen_calls, bfs_result, dfs_result,
                   children, fallbacks, aux_vars>>

\* bfs: the while test passes, the progress line is printed and the for loop
\* is set up with range(len(open))
BfsLevel ==
    /\ pc = "bfs_while"
    /\ open # <<>>
    /\ printed' = <<lvl, Len(open)>>
    /\ todo' = Len(open)
    /\ pc' = "bfs_for"
    /\ UNCHANGED <<state, goals, play_vars, open, closed, node_pair, lvl,
                   gen_calls, bfs_result, dfs_result,
                   children, fallbacks, aux_vars>>

BfsExhausted ==
    /\ pc = "bfs_while"
    /\ open = <<>>
    /\ bfs_result' = <<>>
    /\ pc' = "bfs_ret"
    /\ UNCHANGED <<state, goals, play_vars, open, closed, node_pair, lvl, todo,
                   gen_calls, dfs_result,
                   children, printed, fallbacks, aux_vars>>

BfsGoal ==
    /\ pc = "bfs_for"
    /\ todo > 0
    /\ node_pair' = popleft(open)[1]
    /\ open' = popleft(open)[2]
    /\ goal_test(goals, node_pair'[1])
    /\ bfs_result' = reconstruct_path(node_pair', closed)
    /\ fallbacks' = reconstruct_fallbacks(node_pair'[2], closed)
    /\ pc' = "bfs_ret"
    /\ UNCHANGED <<state, goals, play_vars, closed, lvl, todo, gen_calls, dfs_result,
                   children, printed, aux_vars>>

\* the popped node is expanded without the goal test
BfsExpand_m ==
    /\ pc = "bfs_for"
    /\ todo > 0
    /\ node_pair' = popleft(open)[1]
    /\ closed' = Append(closed, node_pair')
    /\ children' = move_gen(node_pair'[1])
    /\ LET new_nodes == remove_seen(children', popleft(open)[2], closed')
           new_pairs == make_pairs(new_nodes, node_pair'[1])
       IN  open' = popleft(open)[2] \o new_pairs
    /\ gen_calls' = gen_calls + 1
    /\ todo' = todo - 1
    /\ UNCHANGED <<state, goals, play_vars, pc, lvl, bfs_result, dfs_result,
                   printed, fallbacks, aux_vars>>

BfsExpand ==
    /\ pc = "bfs_for"
    /\ todo > 0
    /\ node_pair' = popleft(open)[1]
    /\ ~goal_test(goals, node_pair'[1])
    /\ closed' = Append(closed, node_pair')
    /\ children' = move_gen(node_pair'[1])
    /\ LET new_nodes == remove_seen(children', popleft(open)[2], closed')
           new_pairs == make_pairs(new_nodes, node_pair'[1])
       IN  open' = popleft(open)[2] \o new_pairs
    /\ gen_calls' = gen_calls + 1
    /\ todo' = todo - 1
    /\ UNCHANGED <<state, goals, play_vars, pc, lvl, bfs_result, dfs_result,
                   printed, fallbacks, aux_vars>>

BfsLevelEnd ==
    /\ pc = "bfs_for"
    /\ todo = 0
    /\ lvl' = lvl + 1
    /\ pc' = "bfs_while"
    /\ UNCHANGED <<state, goals, play_vars, open, closed, node_pair, todo,
                   gen_calls, bfs_result, dfs_result,
                   children, printed, fallbacks, aux_vars>>

\* ---- Sokoban.dfs (called by main.benchmark after bfs has returned) ----
DfsStart ==
    /\ pc = "bfs_ret"
    /\ open' = <<<<state, None>>>>
    /\ closed' = <<>>
    /\ gen_calls' = 0
    /\ pc' = "dfs_while"
    /\ UNCHANGED <<state, goals, play_vars, node_pair, lvl, todo, bfs_result, dfs_result,
                   children, printed, fallbacks, aux_vars>>

DfsExhausted ==
    /\ pc = "dfs_while"
    /\ open = <<>>
    /\ dfs_result' = <<>>
    /\ pc' = "done"
    /\ UNCHANGED <<state, goals, play_vars, open, closed, node_pair, lvl, todo,
                   gen_calls, bfs_result,
                   children, printed, fallbacks, aux_vars>>

DfsGoal ==
    /\ pc = "dfs_while"
    /\ open # <<>>
    /\ node_pair' = pop(open)[1]
    /\ open' = pop(open)[2]
    /\ goal_test(goals, node_pair'[1])
    /\ dfs_result' = reconstruct_path(node_pair', closed)
    /\ fallbacks' = reconstruct_fallbacks(node_pair'[2], closed)
    /\ pc' = "done"
    /\ UNCHANGED <<state, goals, play_vars, closed, lvl, todo, gen_calls, bfs_result,
                   children, printed, aux_vars>>

\* the popped node is expanded without the goal test
DfsExpand_m ==
    /\ pc = "dfs_while"
    /\ open # <<>>
    /\ node_pair' = pop(open)[1]
    /\ closed' = Append(closed, node_pair')
    /\ children' = move_gen(node_pair'[1])
    /\ LET new_nodes == remove_seen(children', pop(open)[2], closed')
           new_pairs == make_pairs(new_nodes, node_pair'[1])
       IN  open' = pop(open)[2] \o new_pairs
    /\ gen_calls' = gen_calls + 1
    /\ UNCHANGED <<state, goals, play_vars, pc, lvl, todo, bfs_result, dfs_result,
                   printed, fallbacks, aux_vars>>

DfsExpand ==
    /\ pc = "dfs_while"
    /\ open # <<>>
    /\ node_pair' = pop(open)[1]
    /\ ~goal_test(goals, node_pair'[1])
    /\ closed' = Append(closed, node_pair')
    /\ children' = move_gen(node_pair'[1])
    /\ LET new_nodes == remove_seen(children', pop(open)[2], closed')
           new_pairs == make_pairs(new_nodes, node_pair'[1])
       IN  open' = pop(open)[2] \o new_pairs
    /\ gen_calls' = gen_calls + 1
    /\ UNCHANGED <<state, goals, play_vars, pc, lvl, todo, bfs_result, dfs_result,
                   printed, fallbacks, aux_vars>>

\* main.benchmark: bfs(), then dfs(), on the same puzzle
Next ==
    \/ BfsStart
    \/ BfsLevel
    \/ BfsExhausted
    \/ BfsGoal
    \/ BfsExpand
    \/ BfsLevelEnd
    \/ DfsStart
    \/ DfsExhausted
    \/ DfsGoal
    \/ DfsExpand

Spec == Init /\ [][Next]_vars

\* Sokoban.play and Sokoban.sim
NextPlay ==
    \/ \E d \in Directions : Press(d)
    \/ \E next_state \in InputIndex : SimSelect(next_state)
    \/ \E next_state \in InputIndex : SimIndexError(next_state)
    \/ SimReturn

SpecPlay == InitPlay /\ [][NextPlay]_vars

\* ---- one heuristic evaluated on the puzzle's goal list and state ----
Evaluate(name) ==
    /\ pc = "main"
    /\ heuristic' = name
    /\ score' = evaluate(name, goals, state)
    /\ pc' = "evaluated"
    /\ UNCHANGED <<state, goals, play_vars, search_vars, level, rebuilt, raised>>

NextHeuristic == \E name \in HeuristicNames : Evaluate(name)

SpecHeuristic == Init /\ [][NextHeuristic]_vars

\* ---- a direct call of reconstruct_path ----
\* lst without its k-th element (k = 0: lst itself)
without(lst, k) == SelectSeq([i \in 1..Len(lst) |-> <<i, lst[i]>>],
                             LAMBDA e : e[1] # k)

\* the pairs a search records along the chain state -> s1 -> s2, with at most
\* one pair of closed left out
Reconstruct(d1, d2, k) ==
    LET s1 == move(state, d1)
        s2 == move(s1, d2)
        recorded == <<<<state, None>>, <<s1, Some(state)>>>>
        lst == without(recorded, k)
    IN  /\ pc = "main"
        /\ s1 # state /\ s2 # s1 /\ s2 # state
        /\ node_pair' = <<s2, Some(s1)>>
        /\ closed' = [i \in 1..Len(lst) |-> lst[i][2]]
        /\ rebuilt' = reconstruct_path(node_pair', closed')
        /\ fallbacks' = reconstruct_fallbacks(node_pair'[2], closed')
        \* neither reconstruct_path nor find_link has a raise statement
        /\ raised' = FALSE
        /\ pc' = "reconstructed"
        /\ UNCHANGED <<state, goals, play_vars, open, lvl, todo, gen_calls,
                       bfs_result, dfs_result, children, printed, level,
                       heuristic, score>>

NextReconstruct ==
    \E d1 \in Directions, d2 \in Directions, k \in 0..2 : Reconstruct(d1, d2, k)

\* reconstruct_path reads no goal: the goal list is left empty
InitReconstruct == Init /\ goals = <<>>

SpecReconstruct == InitReconstruct /\ [][NextReconstruct]_vars

\* ---- main: Sokoban.from_file, then play ----
InitLoad ==
    /\ level \in Levels
    /\ state = None
    /\ goals = <<>>
    /\ pc = "load"
    /\ prev = None
    /\ key = "none"
    /\ won = FALSE
    /\ states = <<>>
    /\ open = <<>>
    /\ closed = <<>>
    /\ node_pair = None
    /\ lvl = 0
    /\ todo = 0
    /\ gen_calls = 0
    /\ bfs_result = <<>>
    /\ dfs_result = <<>>
    /\ receiver = None
    /\ children = <<>>
    /\ printed = <<>>
    /\ fallbacks = 0
    /\ heuristic = "none"
    /\ score = 0
    /\ rebuilt = <<>>
    /\ raised = FALSE

\* from_file returns cls(SokobanState(grid, hero), goals); raw_data is gone
FromFile ==
    /\ pc = "load"
    /\ ~from_file_raises(level.raw_data, level.is_alt)
    /\ state' = from_file(level.raw_data, level.is_alt).state
    /\ goals' = from_file(level.raw_data, level.is_alt).goals
    /\ level' = <<>>
    /\ pc' = "main"
    /\ UNCHANGED <<play_vars, search_vars, heuristic, score, rebuilt, raised>>

\* the ValueError of Occupant(...) leaves main
FromFileError ==
    /\ pc = "load"
    /\ from_file_raises(level.raw_data, level.is_alt)
    /\ pc' = "load_error"
    /\ UNCHANGED <<state, goals, play_vars, search_vars, aux_vars>>

NextLoad ==
    \/ FromFile
    \/ FromFileError
    \/ \E d \in Directions : Press(d)

SpecLoad == InitLoad /\ [][NextLoad]_vars

\* main.benchmark run to completion: the program is single-threaded and
\* synchronous, so a step that can be taken is taken. The puzzles are those
\* without walls whose hero stands on an Empty cell and whose goal list names
\* as many distinct cells, in reading order, as there are boxes.
Before(p, q) == p[2] < q[2] \/ (p[2] = q[2] /\ p[1] < q[1])
InitLive ==
    /\ Init
    /\ CountOf(state.grid, WALL) = 0
    /\ state.grid[state.hero[2]][state.hero[1]] = EMPTY
    /\ Len(goals) = CountOf(state.grid, BLOCK)
    /\ \A i \in 1..(Len(goals) - 1) : Before(goals[i], goals[i + 1])

SpecLive == InitLive /\ [][Next]_vars /\ WF_vars(Next)

\* ======================= properties =======================
InGrid(x, y) == x \in Cols /\ y \in Rows
At(s, x, y) == s.grid[y][x]
\* the cell the hero of s faces in direction d, and the cell beyond it
TargetX(s, d) == s.hero[1] + DirValue(d)[1]
TargetY(s, d) == s.hero[2] + DirValue(d)[2]
BeyondX(s, d) == s.hero[1] + 2 * DirValue(d)[1]
BeyondY(s, d) == s.hero[2] + 2 * DirValue(d)[2]
Pressed == pc \in {"play", "play_ret"} /\ key \in Directions
NoDup(l) == \A i, j \in 1..Len(l) : i # j => l[i] # l[j]

\* ---- reachability by move() steps, independent of the searches ----
Successors(s) == {move(s, d) : d \in Directions}

\* number of transitions of a shortest move() sequence from a state of
\* `frontier` (all at distance k from the start) to a state passing goal_test;
\* -1 when no such state is reachable
RECURSIVE GoalDistance(_, _, _)
GoalDistance(frontier, seen, k) ==
    IF \E s \in frontier : goal_test(goals, s) THEN k
    ELSE LET next == (UNION {Successors(s) : s \in frontier}) \ seen
         IN  IF next = {} THEN 0 - 1
             ELSE GoalDistance(next, seen \cup next, k + 1)

MinGoalDistance == GoalDistance({state}, {state}, 0)
GoalReachable == MinGoalDistance >= 0

BfsReturned == pc = "bfs_ret"
DfsReturned == pc = "done"
Last(l) == l[Len(l)]

\* C1: when a goal state is reachable, the bfs() path has the minimum number
\* of transitions of any move() sequence from the start to a goal state, and
\* is no longer than the dfs() path.
C1_BfsShortest ==
    /\ (BfsReturned /\ GoalReachable)
          => /\ bfs_result # <<>>
             /\ Len(bfs_result) - 1 = MinGoalDistance
    /\ (DfsReturned /\ GoalReachable /\ dfs_result # <<>>)
          => Len(bfs_result) <= Len(dfs_result)

C1_Witness ==
    /\ DfsReturned
    /\ Len(bfs_result) >= 3
    /\ Len(dfs_result) > Len(bfs_result)

\* a full start-to-goal path: from the initial state to the popped goal
\* state, without repetition, every step a state-changing move
FullPath(path) ==
    /\ path[1] = state
    /\ Last(path) = node_pair[1]
    /\ NoDup(path)
    /\ \A i \in 1..(Len(path) - 1) :
          /\ path[i + 1] # path[i]
          /\ \E d \in Directions : path[i + 1] = move(path[i], d)

\* C2: every non-empty path returned by bfs() or dfs() is a full path.
C2_PathWellFormed ==
    /\ (BfsReturned /\ bfs_result # <<>>) => FullPath(bfs_result)
    /\ (DfsReturned /\ dfs_result # <<>>) => FullPath(dfs_result)

C2_Witness ==
    /\ DfsReturned
    /\ Len(bfs_result) >= 3
    /\ Len(dfs_result) >= 4
    /\ FullPath(dfs_result)

\* C3: bfs() and dfs() return the empty list iff no goal state is reachable,
\* and otherwise a path whose last state passes goal_test.
C3_EmptyIffUnreachable ==
    /\ BfsReturned
          => /\ bfs_result = <<>> <=> ~GoalReachable
             /\ bfs_result # <<>> => goal_test(goals, Last(bfs_result))
    /\ DfsReturned
          => /\ dfs_result = <<>> <=> ~GoalReachable
             /\ dfs_result # <<>> => goal_test(goals, Last(dfs_result))

\* both searches exhaust a state space with a box in it
C3_Witness ==
    /\ DfsReturned
    /\ bfs_result = <<>>
    /\ dfs_result = <<>>
    /\ goals # <<>>
    /\ CountOf(state.grid, BLOCK) >= 1
    /\ Len(closed) >= 6

\* C4: when the initial state passes goal_test, bfs() and dfs() return the
\* one-element path [initial state] with closed empty and no move_gen call.
C4_AlreadySolved ==
    goal_test(goals, state)
        => /\ BfsReturned
                => /\ bfs_result = <<state>>
                   /\ bfs_result # <<>>
                   /\ closed = <<>>
                   /\ gen_calls = 0
           /\ DfsReturned
                => /\ dfs_result = <<state>>
                   /\ dfs_result # <<>>
                   /\ closed = <<>>
                   /\ gen_calls = 0

C4_Witness ==
    /\ DfsReturned
    /\ goals # <<>>
    /\ goal_test(goals, state)
    /\ bfs_result = <<state>>
    /\ dfs_result = <<state>>

OnlyLastIsGoal(path) ==
    /\ goal_test(goals, Last(path))
    /\ \A i \in 1..(Len(path) - 1) : ~goal_test(goals, path[i])

\* C5: in a returned path the last state passes goal_test and no earlier
\* state does.
C5_NoPrematureGoal ==
    /\ (BfsReturned /\ bfs_result # <<>>) => OnlyLastIsGoal(bfs_result)
    /\ (DfsReturned /\ dfs_result # <<>>) => OnlyLastIsGoal(dfs_result)

C5_Witness ==
    /\ BfsReturned
    /\ Len(bfs_result) >= 3
    /\ Len(goals) = 2
    /\ goals[1] # goals[2]
    /\ OnlyLastIsGoal(bfs_result)

\* C6: a key press whose target cell lies outside the grid leaves self.state
\* value-equal to the state before the press (same grid, same hero).
C6_OutOfBoundsNoOp ==
    (Pressed /\ ~InGrid(TargetX(prev, key), TargetY(prev, key))) => state = prev

C6_Witness ==
    /\ Pressed
    /\ ~InGrid(TargetX(prev, key), TargetY(prev, key))
    /\ state = prev

\* the target holds a box that cannot be pushed (wall, box or grid edge behind it)
BlockedPush(s, d) ==
    /\ InGrid(TargetX(s, d), TargetY(s, d))
    /\ At(s, TargetX(s, d), TargetY(s, d)) = BLOCK
    /\ \/ ~InGrid(BeyondX(s, d), BeyondY(s, d))
       \/ At(s, BeyondX(s, d), BeyondY(s, d)) \in {WALL, BLOCK}

IntoWall(s, d) ==
    /\ InGrid(TargetX(s, d), TargetY(s, d))
    /\ At(s, TargetX(s, d), TargetY(s, d)) = WALL

\* C7: pushing a box against a wall, another box or the grid edge, and moving
\* into a wall, leave the hero and the whole grid unchanged.
C7_BlockedPushNoOp ==
    (Pressed /\ (BlockedPush(prev, key) \/ IntoWall(prev, key)))
        => /\ state.hero = prev.hero
           /\ state.grid = prev.grid

C7_Witness ==
    /\ Pressed
    /\ BlockedPush(prev, key)
    /\ InGrid(BeyondX(prev, key), BeyondY(prev, key))
    /\ At(prev, BeyondX(prev, key), BeyondY(prev, key)) = BLOCK
    /\ state = prev

HeroRelocation(s, d, t) ==
    /\ InGrid(TargetX(s, d), TargetY(s, d))
    /\ At(s, TargetX(s, d), TargetY(s, d)) = EMPTY
    /\ t.hero = <<TargetX(s, d), TargetY(s, d)>>
    /\ t.grid = s.grid

BoxPush(s, d, t) ==
    /\ InGrid(TargetX(s, d), TargetY(s, d))
    /\ At(s, TargetX(s, d), TargetY(s, d)) = BLOCK
    /\ InGrid(BeyondX(s, d), BeyondY(s, d))
    /\ At(s, BeyondX(s, d), BeyondY(s, d)) = EMPTY
    /\ t.hero = <<TargetX(s, d), TargetY(s, d)>>
    /\ \A p \in Positions :
          At(t, p[1], p[2]) =
             IF p = <<BeyondX(s, d), BeyondY(s, d)>> THEN BLOCK
             ELSE IF p = <<TargetX(s, d), TargetY(s, d)>> THEN EMPTY
             ELSE At(s, p[1], p[2])

NoOp(s, t) == t = s

OutcomeCount(s, d, t) ==
    (IF HeroRelocation(s, d, t) THEN 1 ELSE 0)
    + (IF BoxPush(s, d, t) THEN 1 ELSE 0)
    + (IF NoOp(s, t) THEN 1 ELSE 0)

\* C8: every move is exactly one of hero relocation, box push, no-op.
C8_ExactlyOneOutcome == Pressed => OutcomeCount(prev, key, state) = 1

C8_Witness == Pressed /\ BoxPush(prev, key, state)

\* C9: move_gen(s) has no two equal states, does not contain s, and holds
\* exactly the results of the four moves that differ from s.
C9_MoveGenDistinct ==
    pc \in {"sim", "sim_error"}
        => /\ NoDup(states)
           /\ prev \notin Range(states)
           /\ Range(states) = {move(prev, d) : d \in Directions} \ {prev}

C9_Witness ==
    /\ pc = "sim"
    /\ Len(states) >= 2
    /\ \E d \in Directions : move(prev, d) = prev

\* C10: goal_test is true iff every goal position holds a box; it does not
\* depend on the hero position and is true for an empty goal list.
C10_GoalTest ==
    Pressed
        => /\ won <=> \A p \in Range(goals) : At(state, p[1], p[2]) = BLOCK
           /\ goals = <<>> => won
           /\ \A h \in Positions :
                 goal_test(goals, [state EXCEPT !.hero = h]) = won

C10_Witness ==
    /\ Pressed
    /\ won
    /\ Len(goals) = 2
    /\ goals[1] # goals[2]
    /\ state.grid # prev.grid

Evaluated == pc = "evaluated"
BoxCells(s) == {p \in Positions : At(s, p[1], p[2]) = BLOCK}

RECURSIVE SumOver(_, _)
SumOver(S, hero) ==
    IF S = {} THEN 0
    ELSE LET p == CHOOSE q \in S : TRUE
         IN  abs(hero[1] - p[1]) + abs(hero[2] - p[2]) + SumOver(S \ {p}, hero)

\* total Manhattan distance from the hero to the boxes
HeroBoxDistance(s) == SumOver(BoxCells(s), s.hero)

\* C11 as stated: every evaluator is non-negative, and is 0 for an empty goal
\* list whatever the state.
C11_ZeroOnEmptyGoals ==
    Evaluated
        => /\ score >= 0
           /\ goals = <<>> => score = 0

\* C11, amended: every evaluator is non-negative; for an empty goal list
\* min_manhattan and sum_manhattan are 0 and the four hero variants are the
\* total Manhattan distance from the hero to the boxes.
C11_EmptyGoalsValue ==
    Evaluated
        => /\ score >= 0
           /\ goals = <<>>
                => score = IF heuristic \in {"min_manhattan", "sum_manhattan"}
                           THEN 0
                           ELSE HeroBoxDistance(state)

C11_Witness ==
    /\ Evaluated
    /\ goals = <<>>
    /\ heuristic = "sum_manhattan_hero_penalty"
    /\ Cardinality(BoxCells(state)) = 2
    /\ score > 0
\* ---- C12 ----
Reconstructed == pc = "reconstructed"
\* the first parent looked up has no pair in closed
MissingParent ==
    /\ node_pair # None
    /\ node_pair[2] # None
    /\ \A i \in 1..Len(closed) : closed[i][1] # node_pair[2][1]

\* C12: when reconstruct_path looks up a parent state that has no pair in
\* closed, the call ends in an error; it does not return a path cut short at
\* that state
C12_MissingParentIsError ==
    (Reconstructed /\ MissingParent) =>
        (raised /\ rebuilt # <<node_pair[2][1], node_pair[1]>>)

\* ---- C13 ----
\* rows and hero of a level in the file's own terms
LevelRows(l) ==
    IF l.is_alt THEN l.raw_data ELSE SubSeq(l.raw_data, 1, Len(l.raw_data) - 2)
KnownChars(l) ==
    IF l.is_alt THEN {" ", "X", "@", ".", "*", "+"}
    ELSE {" ", "B", "W", "b", "w"}
UnparsableChar(l) ==
    \E i \in 1..Len(LevelRows(l)) : \E j \in 1..Len(LevelRows(l)[i]) :
        LevelRows(l)[i][j] \notin KnownChars(l)
HeroOutside(l) ==
    /\ ~l.is_alt
    /\ LET h == l.raw_data[Len(l.raw_data)]
       IN  ~(/\ py_int(h[1]) \in 0..(Len(LevelRows(l)[1]) - 1)
             /\ py_int(h[2]) \in 0..(Len(LevelRows(l)) - 1))
Malformed(l) == UnparsableChar(l) \/ HeroOutside(l)

\* C13: from_file rejects every malformed level (hero outside the grid, or an
\* unparsable occupant character) with an error, and whatever it returns has
\* its hero inside the grid
C13_MalformedRejected ==
    [][pc = "load" =>
          /\ Malformed(level) => pc' = "load_error"
          /\ pc' = "main" => InGrid(state'.hero[1], state'.hero[2])]_vars

PairStates(l) == {l[i][1] : i \in 1..Len(l)}
SearchStates ==
    PairStates(open) \cup PairStates(closed) \cup Range(children)
        \cup Range(bfs_result) \cup Range(dfs_result)
        \cup (IF node_pair = None THEN {} ELSE {node_pair[1]})
SameDimensions(s, t) ==
    /\ DOMAIN s.grid = DOMAIN t.grid
    /\ \A y \in DOMAIN s.grid : DOMAIN s.grid[y] = DOMAIN t.grid[y]
HeroOnFreeCell(s) ==
    /\ InGrid(s.hero[1], s.hero[2])
    /\ At(s, s.hero[1], s.hero[2]) \notin {WALL, BLOCK}

\* C15: when the initial hero is in bounds on an Empty cell, every state
\* produced by move (so every state in open, closed or a returned path) has
\* the initial grid dimensions and its hero in bounds on a cell that is
\* neither Wall nor Box
C15_HeroWellPlaced ==
    (InGrid(state.hero[1], state.hero[2])
        /\ At(state, state.hero[1], state.hero[2]) = EMPTY) =>
    \A s \in SearchStates : SameDimensions(s, state) /\ HeroOnFreeCell(s)

C15_Witness ==
    /\ DfsReturned
    /\ At(state, state.hero[1], state.hero[2]) = EMPTY
    /\ Len(bfs_result) > 2
    /\ \E s \in PairStates(closed) : s.grid # state.grid /\ s.hero # state.hero
    /\ \A s \in SearchStates : SameDimensions(s, state) /\ HeroOnFreeCell(s)

\* ---- C16 ----
FixedOrder == <<"UP", "DOWN", "LEFT", "RIGHT">>
\* rank in the fixed order of the first direction whose move from s gives a
FirstProducedBy(s, a) ==
    CHOOSE i \in 1..Len(FixedOrder) :
        /\ move(s, FixedOrder[i]) = a
        /\ \A j \in 1..(i - 1) : move(s, FixedOrder[j]) # a
\* pairs of one parent follow one another in the order their states are
\* first produced from that parent
SiblingsInOrder(l) ==
    \A i, j \in 1..Len(l) :
        (i < j /\ l[i][2] # None /\ l[i][2] = l[j][2]) =>
            FirstProducedBy(l[i][2][1], l[i][1]) < FirstProducedBy(l[j][2][1], l[j][1])
InBfs == pc \in {"bfs_while", "bfs_for", "bfs_ret"}

InSearch == pc \in {"bfs_while", "bfs_for", "bfs_ret", "dfs_while", "done"}
StatesOf(l) == [i \in 1..Len(l) |-> l[i][1]]

\* C17: at every step of bfs and dfs no state occurs twice across open and
\* closed together (none twice in open, none twice in closed, none in both)
C17_NoDuplicates ==
    InSearch => NoDup(StatesOf(open \o closed))

C17_Witness ==
    /\ pc = "dfs_while"
    /\ Len(open) >= 2
    /\ Len(closed) >= 3
    /\ \E i \in 1..Len(closed) : \E d \in Directions :
          /\ move(closed[i][1], d) # closed[i][1]
          /\ occurs_in(open, move(closed[i][1], d))
          /\ closed[i][1] # Last(closed)[1]
          /\ open[CHOOSE k \in 1..Len(open) :
                      open[k][1] = move(closed[i][1], d)][2] # Some(closed[i][1])
    /\ NoDup(StatesOf(open \o closed))

\* ---- C18 ----
\* the pairs of open and closed and, when a search has returned, the pair it
\* popped last
SearchPairs ==
    Range(open) \cup Range(closed)
        \cup (IF pc \in {"bfs_ret", "done"} /\ node_pair # None
              THEN {node_pair} ELSE {})

\* C18: at every step of bfs and dfs, every pair of open or closed (and the
\* pair popped) with a parent has a pair for that parent in closed, the only
\* pair without a parent is the one of the initial state, and the
\* reconstruction at the end of a search never takes find_link's fallback
\* return
C18_ParentsInClosed ==
    InSearch =>
        /\ \A n \in SearchPairs :
              /\ n[2] # None => occurs_in(closed, n[2][1])
              /\ n[2] = None => n[1] = state
        /\ fallbacks = 0

C18_Witness ==
    /\ DfsReturned
    /\ Len(bfs_result) >= 3
    /\ Len(dfs_result) > Len(bfs_result)
    /\ fallbacks = 0
    /\ node_pair[2] # None
    /\ Cardinality({n \in Range(closed) : n[2] # None}) >= 2

\* ---- C19 ----
\* the states at distance k from the states of `frontier` that are not in
\* `seen`; with `avoid`, paths do not continue through a goal state
RECURSIVE LayerFrom(_, _, _, _)
LayerFrom(frontier, seen, k, avoid) ==
    IF k = 0 THEN frontier
    ELSE LET through == IF avoid
                        THEN {s \in frontier : ~goal_test(goals, s)}
                        ELSE frontier
             next == (UNION {Successors(s) : s \in through}) \ seen
         IN  LayerFrom(next, seen \cup next, k - 1, avoid)
\* states whose shortest distance from the initial state is k
Layer(k) == LayerFrom({state}, {state}, k, FALSE)
\* those of them reachable without passing through a goal state
GoalFreeLayer(k) == LayerFrom({state}, {state}, k, TRUE)
Below(k) == UNION {Layer(j) : j \in 0..(k - 1)}

\* C19: in bfs, at the start of each outer-loop iteration with counter lvl,
\* open holds exactly the states at distance lvl from the initial state that
\* are reachable without passing through a goal state, closed holds exactly
\* the states at distance less than lvl, and the count printed for a depth is
\* the number of distinct states at that depth
C19_LevelByLevel ==
    /\ pc = "bfs_while" =>
          /\ PairStates(open) = GoalFreeLayer(lvl)
          /\ PairStates(closed) = Below(lvl)
    /\ (InBfs /\ printed # <<>>) =>
          /\ printed[2] = Cardinality(Layer(printed[1]))
          /\ pc = "bfs_for" => printed[1] = lvl

C19_Witness ==
    /\ pc = "bfs_while"
    /\ lvl = 3
    /\ Len(open) >= 2
    /\ printed = <<2, Cardinality(Layer(2))>>
    /\ Cardinality(Layer(2)) >= 2
    /\ PairStates(open) = GoalFreeLayer(3)
    /\ \E s \in PairStates(open) : goal_test(goals, s)

\* ---- C20 ----
\* the states reachable from the initial state by move() steps
RECURSIVE ReachFrom(_, _)
ReachFrom(frontier, seen) ==
    LET next == (UNION {Successors(s) : s \in frontier}) \ seen
    IN  IF next = {} THEN seen ELSE ReachFrom(next, seen \cup next)
Reachable == ReachFrom({state}, {state})

\* C20: bfs and dfs terminate, each returning a path or, with open exhausted,
\* the empty list, after expanding at most as many nodes as there are
\* distinct reachable states
C20_Terminates ==
    /\ <>BfsReturned
    /\ <>DfsReturned
    /\ [](gen_calls <= Cardinality(Reachable))

C20_Witness ==
    /\ DfsReturned
    /\ dfs_result = <<>>
    /\ Cardinality(Reachable) >= 6
    /\ gen_calls = Cardinality(Reachable)

\* ---- C21 ----
WallCells(s) == {p \in Positions : At(s, p[1], p[2]) = WALL}
\* s and t have the same walls and as many boxes
SameMaterial(s, t) ==
    /\ WallCells(t) = WallCells(s)
    /\ Cardinality(BoxCells(t)) = Cardinality(BoxCells(s))
\* from s to t no box has moved, or one box has, by one cell in direction d
AtMostOneBoxStep(s, d, t) ==
    LET gone == BoxCells(s) \ BoxCells(t)
        come == BoxCells(t) \ BoxCells(s)
    IN  \/ gone = {} /\ come = {}
        \/ \E p \in gone :
              /\ gone = {p}
              /\ come = {<<p[1] + DirValue(d)[1], p[2] + DirValue(d)[2]>>}

\* C21: move conserves the board's material: s.move(d) has the Wall cells of
\* s and as many Box cells as s, and differs from s in the position of at
\* most one box, moved by exactly one cell in direction d; hence every state
\* a search holds has the walls and the box count of the initial state
C21_MaterialConserved ==
    /\ Pressed => /\ SameMaterial(prev, state)
                  /\ AtMostOneBoxStep(prev, key, state)
    /\ InSearch => \A s \in SearchStates : SameMaterial(state, s)

C21_Witness ==
    /\ Pressed
    /\ BoxPush(prev, key, state)
    /\ Cardinality(BoxCells(prev)) = 2
    /\ WallCells(prev) # {}
    /\ BoxCells(state) # BoxCells(prev)
    /\ SameMaterial(prev, state)

====
